---- MODULE Spec2Model ----
(***************************************************************************)
(* Model of results/data/20250730_225303/extract_metrics.py: the metrics   *)
(* extractor of the DRL task-offloading simulations.                       *)
(*                                                                         *)
(* A log text is a sequence of symbols.  The three literal texts the       *)
(* regular expressions look for are one symbol each (a literal either      *)
(* occurs whole or not at all):                                            *)
(*    "ET" = 'EXECUTION TIME : '      "EC" = ' : Energy Consumed = '       *)
(*    "NU" = 'Total network usage = '                                      *)
(* every literal ends in a blank, so it is neither a word character nor a  *)
(* hyphen for the text that follows it.  The other symbols are single      *)
(* characters: "a" a letter, "1" a digit, "-" a hyphen, "." a dot and      *)
(* "nl" a line break.                                                      *)
(*                                                                         *)
(* A number is a record [t, m, e]: t is the Python type ("int" or          *)
(* "float"), and the value is m / 10^e, kept normalised (e = 0 or m not a  *)
(* multiple of 10).  Sums of floats are exact decimal sums: the rounding   *)
(* of IEEE-754 doubles is not modelled.                                    *)
(***************************************************************************)
EXTENDS Integers, Sequences, FiniteSets, TLC

\* ------------------------------------------------------------- bounds
\* longest log text of the extraction specification
MaxLen == 5
\* longest log text of the energy specification
MaxEnergyLen == 6
\* most log lines, over the three input files together, of the run specification
MaxLines == 2
\* number of successive runs of the script
MaxRuns == 2

\* ------------------------------------------------------------ symbols
Digits == {"0", "1", "2", "3", "4", "5", "6", "7", "8", "9"}
Letters == {"a"}
\* \w of the regular expressions (letters, digits; the underscore is not drawn)
WordChars == Letters \cup Digits
IsWord(c) == c \in WordChars
\* \d
IsDigit(c) == c \in Digits
\* [\d\.]
NumChars == Digits \cup {"."}
IsNumChar(c) == c \in NumChars
\* the symbols log texts are drawn from
Alphabet == {"ET", "EC", "NU", "a", "-", "1", "."}
\* the symbols the energy pattern reads
EnergyAlphabet == {"EC", "a", "-", "1", "."}

Labels == <<"Simple", "Learnable", "Full">>
LabelSet == {Labels[i] : i \in 1..Len(Labels)}

\* ------------------------------------------------------------ numbers
Pow10(n) == IF n = 0 THEN 1 ELSE IF n = 1 THEN 10 ELSE IF n = 2 THEN 100
            ELSE IF n = 3 THEN 1000 ELSE IF n = 4 THEN 10000
            ELSE IF n = 5 THEN 100000 ELSE IF n = 6 THEN 1000000
            ELSE IF n = 7 THEN 10000000 ELSE 100000000

DigitVal(c) == CASE c = "0" -> 0 [] c = "1" -> 1 [] c = "2" -> 2 [] c = "3" -> 3
                 [] c = "4" -> 4 [] c = "5" -> 5 [] c = "6" -> 6 [] c = "7" -> 7
                 [] c = "8" -> 8 [] c = "9" -> 9

IntV(n) == [t |-> "int", m |-> n, e |-> 0]

RECURSIVE FloatV(_, _)
\* the float m / 10^e, normalised
FloatV(m, e) == IF e > 0 /\ m % 10 = 0 THEN FloatV(m \div 10, e - 1)
                ELSE [t |-> "float", m |-> m, e |-> e]

Max(a, b) == IF a >= b THEN a ELSE b

\* Python's x + y on ints and floats: int + int is an int, anything else a float
Add(x, y) ==
    IF x.t = "int" /\ y.t = "int" THEN IntV(x.m + y.m)
    ELSE LET e == Max(x.e, y.e)
         IN  FloatV(x.m * Pow10(e - x.e) + y.m * Pow10(e - y.e), e)

RECURSIVE SumFrom(_, _, _)
\* the builtin sum(values): starts from the int 0 and adds left to right
SumFrom(vals, i, acc) ==
    IF i > Len(vals) THEN acc ELSE SumFrom(vals, i + 1, Add(acc, vals[i]))

PySum(vals) == SumFrom(vals, 1, IntV(0))

RECURSIVE DigitsValue(_, _, _)
\* the value of the digits of s read left to right (dots skipped)
DigitsValue(s, i, acc) ==
    IF i > Len(s) THEN acc
    ELSE IF s[i] = "." THEN DigitsValue(s, i + 1, acc)
    ELSE DigitsValue(s, i + 1, 10 * acc + DigitVal(s[i]))

NumDots(s) == Cardinality({i \in 1..Len(s) : s[i] = "."})
NumDigits(s) == Cardinality({i \in 1..Len(s) : IsDigit(s[i])})

\* int(s) of a text of digits
PyInt(s) == IntV(DigitsValue(s, 1, 0))

\* float(s) accepts a text of [\d\.] characters when it has at most one dot and
\* at least one digit; anything else raises ValueError
FloatOk(s) == NumDots(s) <= 1 /\ NumDigits(s) >= 1

\* digits after the dot
FracLen(s) ==
    IF NumDots(s) = 0 THEN 0
    ELSE Len(s) - (CHOOSE i \in 1..Len(s) : s[i] = ".")

PyFloat(s) == FloatV(DigitsValue(s, 1, 0), FracLen(s))

RECURSIVE NatStr(_)
\* the decimal digits of a natural number
NatStr(n) ==
    LET d == CHOOSE c \in Digits : DigitVal(c) = n % 10
    IN  IF n < 10 THEN <<d>> ELSE Append(NatStr(n \div 10), d)

RECURSIVE Pad(_, _)
\* s with zeros in front, up to n characters
Pad(s, n) == IF Len(s) >= n THEN s ELSE Pad(<<"0">> \o s, n)

\* str(v), as csv.writer and json.dump write a number: an int has no dot, a
\* float always has one ("0" against "0.0", "4.0")
PyStr(v) ==
    IF v.t = "int" THEN NatStr(v.m)
    ELSE NatStr(v.m \div Pow10(v.e)) \o <<".">> \o
         (IF v.e = 0 THEN <<"0">> ELSE Pad(NatStr(v.m % Pow10(v.e)), v.e))

\* -------------------------------------------------- regular expressions
RECURSIVE RunEnd(_, _, _)
\* greedy character class: the last position of the run of characters of the
\* class that starts at i (i - 1 when content[i] is not in the class)
RunEnd(content, i, class) ==
    IF i <= Len(content) /\ content[i] \in class
    THEN RunEnd(content, i + 1, class) ELSE i - 1

Slice(content, i, j) == SubSeq(content, i, j)

NoMatch == [found |-> FALSE]

RECURSIVE SearchLit(_, _, _, _)
\* re.search of  <literal>(<class>+) : the leftmost position where the literal is
\* followed by a character of the class; group 1 is the greedy run
SearchLit(content, lit, class, pos) ==
    IF pos >= Len(content) THEN NoMatch
    ELSE IF content[pos] = lit /\ content[pos + 1] \in class
    THEN [found |-> TRUE, at |-> pos,
          group |-> Slice(content, pos + 1, RunEnd(content, pos + 1, class))]
    ELSE SearchLit(content, lit, class, pos + 1)

RECURSIVE SearchLitLast(_, _, _, _)
\* the rightmost match in place of the leftmost
SearchLitLast(content, lit, class, pos) ==
    IF pos < 1 THEN NoMatch
    ELSE IF content[pos] = lit /\ content[pos + 1] \in class
    THEN [found |-> TRUE, at |-> pos,
          group |-> Slice(content, pos + 1, RunEnd(content, pos + 1, class))]
    ELSE SearchLitLast(content, lit, class, pos - 1)

\* a search that keeps the last 'EXECUTION TIME : <integer>' of the text
time_match_last(content) == SearchLitLast(content, "ET", Digits, Len(content) - 1)

\* re.search(r'EXECUTION TIME : (\d+)', content)
time_match(content) == SearchLit(content, "ET", Digits, 1)

\* re.search(r'Total network usage = ([\d\.]+)', content)
network_match(content) == SearchLit(content, "NU", NumChars, 1)

RECURSIVE NameEnd(_, _, _)
\* \w+-?\w*-?\w* tried at one start position: q is the place in the pattern
\* (0 before the first \w, 1 in \w+, 2 after the first hyphen, 3 after the
\* second); the result is the position after the name when the pattern can
\* stop right before an "EC", and 0 when it cannot
NameEnd(content, i, q) ==
    IF i > Len(content) THEN 0
    ELSE LET c == content[i]
         IN  IF IsWord(c) THEN NameEnd(content, i + 1, IF q = 0 THEN 1 ELSE q)
             ELSE IF c = "-" /\ q \in {1, 2} THEN NameEnd(content, i + 1, q + 1)
             ELSE IF c = "EC" /\ q >= 1 THEN i
             ELSE 0

\* the whole pattern (\w+-?\w*-?\w*) : Energy Consumed = ([\d\.]+) tried at
\* start position pos
EnergyAt(content, pos) ==
    LET ec == NameEnd(content, pos, 0)
    IN  IF ec # 0 /\ ec < Len(content) /\ IsNumChar(content[ec + 1])
        THEN [found |-> TRUE, at |-> pos,
              name |-> Slice(content, pos, ec - 1),
              group |-> Slice(content, ec + 1, RunEnd(content, ec + 1, NumChars)),
              end |-> RunEnd(content, ec + 1, NumChars)]
        ELSE NoMatch

RECURSIVE FindAll(_, _)
\* re.findall: the matches left to right, each search resuming after the
\* previous match
FindAll(content, pos) ==
    IF pos > Len(content) THEN <<>>
    ELSE LET m == EnergyAt(content, pos)
         IN  IF m.found THEN <<m>> \o FindAll(content, m.end + 1)
             ELSE FindAll(content, pos + 1)

\* re.search in place of re.findall: the first match alone
energy_matches_first(content) ==
    LET all == FindAll(content, 1)
    IN  IF all = <<>> THEN <<>> ELSE <<all[1]>>

\* re.findall(r'(\w+-?\w*-?\w*) : Energy Consumed = ([\d\.]+)', content)
energy_matches(content) == FindAll(content, 1)

\* ------------------------------------------------------- the metric store
\* A Python dict keeps its keys in insertion order: a mapping is a sequence of
\* <<key, value>> pairs with no key twice.
KeySet(d) == {d[i][1] : i \in 1..Len(d)}
Get(d, k) == d[CHOOSE i \in 1..Len(d) : d[i][1] = k][2]

\* a mapping that puts a new key first
DictSet_prepend(d, k, v) ==
    IF k \in KeySet(d)
    THEN [i \in 1..Len(d) |-> IF d[i][1] = k THEN <<k, v>> ELSE d[i]]
    ELSE <<<<k, v>>>> \o d

\* d[k] = v : a new key goes last, a key already there keeps its place
DictSet(d, k, v) ==
    IF k \in KeySet(d)
    THEN [i \in 1..Len(d) |-> IF d[i][1] = k THEN <<k, v>> ELSE d[i]]
    ELSE Append(d, <<k, v>>)

MetricNames == <<"execution_time", "energy_consumption", "network_usage">>

\* the module-level dict metrics, as the script creates it
EmptyMetrics == [execution_time |-> <<>>, energy_consumption |-> <<>>,
                 network_usage |-> <<>>]

\* a store that puts 0 under the label when nothing matched
StoreTime_sentinel(m, content, simulation_type) ==
    LET tm == time_match(content)
    IN  [m EXCEPT !.execution_time =
            DictSet(@, simulation_type,
                    IF tm.found THEN PyInt(tm.group) ELSE IntV(0))]

\* lines 23-25: the execution time of the first match, as an int
StoreTime(m, content, simulation_type) ==
    LET tm == time_match(content)
    IN  IF tm.found
        THEN [m EXCEPT !.execution_time =
                  DictSet(@, simulation_type, PyInt(tm.group))]
        ELSE m

\* line 29: the floats of all the matches, in the order sum() draws them
EnergyValues(content) ==
    LET ms == energy_matches(content)
    IN  [i \in 1..Len(ms) |-> PyFloat(ms[i].group)]

\* line 29 raises ValueError at the first group float() rejects
EnergyRaises(content) ==
    LET ms == energy_matches(content)
    IN  \E i \in 1..Len(ms) : ~FloatOk(ms[i].group)

total_energy(content) == PySum(EnergyValues(content))

\* a store guarded by "if energy_matches:", as the other two are
StoreEnergy_ifMatched(m, content, simulation_type) ==
    IF energy_matches(content) = <<>> THEN m
    ELSE [m EXCEPT !.energy_consumption =
              DictSet(@, simulation_type, total_energy(content))]

\* lines 28-30: the total is stored whether or not anything matched
StoreEnergy(m, content, simulation_type) ==
    [m EXCEPT !.energy_consumption =
         DictSet(@, simulation_type, total_energy(content))]

\* line 35 raises ValueError when float() rejects the group
NetworkRaises(content) ==
    LET nm == network_match(content)
    IN  nm.found /\ ~FloatOk(nm.group)

\* a store that puts 0.0 under the label when nothing matched
StoreNetwork_default(m, content, simulation_type) ==
    LET nm == network_match(content)
    IN  [m EXCEPT !.network_usage =
            DictSet(@, simulation_type,
                    IF nm.found THEN PyFloat(nm.group) ELSE FloatV(0, 0))]

\* lines 33-35
StoreNetwork(m, content, simulation_type) ==
    LET nm == network_match(content)
    IN  IF nm.found
        THEN [m EXCEPT !.network_usage =
                  DictSet(@, simulation_type, PyFloat(nm.group))]
        ELSE m

\* extract_metrics on a text already read: the store it leaves and the
\* exception it ends with ("none" when it returns)
extract_metrics(m, content, simulation_type) ==
    LET m1 == StoreTime(m, content, simulation_type)
    IN  IF EnergyRaises(content) THEN [metrics |-> m1, err |-> "ValueError"]
        ELSE LET m2 == StoreEnergy(m1, content, simulation_type)
             IN  IF NetworkRaises(content)
                 THEN [metrics |-> m2, err |-> "ValueError"]
                 ELSE [metrics |-> StoreNetwork(m2, content, simulation_type),
                       err |-> "none"]

\* ------------------------------------------------------------- the files
InputName(l) == CASE l = "Simple" -> "simple_drl_results.txt"
                  [] l = "Learnable" -> "learnable_drl_results.txt"
                  [] l = "Full" -> "full_drl_results.txt"

CsvName(metric_name) ==
    CASE metric_name = "execution_time" -> "execution_time.csv"
      [] metric_name = "energy_consumption" -> "energy_consumption.csv"
      [] metric_name = "network_usage" -> "network_usage.csv"

JsonName == "all_metrics.json"
OutNames == {CsvName(MetricNames[k]) : k \in 1..Len(MetricNames)} \cup {JsonName}

\* the order in which a complete run opens its output files
OutOrder == [k \in 1..Len(MetricNames) |-> CsvName(MetricNames[k])] \o <<JsonName>>

NoFile == [exists |-> FALSE, data |-> <<>>]
FileOf(data) == [exists |-> TRUE, data |-> data]

MetricData(m, metric_name) ==
    CASE metric_name = "execution_time" -> m.execution_time
      [] metric_name = "energy_consumption" -> m.energy_consumption
      [] metric_name = "network_usage" -> m.network_usage

\* lines 50-53: the header row, then one row per item of the mapping
CsvRows(metric_name, metric_data) ==
    <<<<"Simulation Type", metric_name>>>> \o
    [i \in 1..Len(metric_data) |-> <<metric_data[i][1], PyStr(metric_data[i][2])>>]

\* json.dump(metrics): the three categories in the order of the dict, each with
\* its label and number pairs
JsonDoc(m) ==
    [k \in 1..Len(MetricNames) |->
        LET d == MetricData(m, MetricNames[k])
        IN  <<MetricNames[k], [i \in 1..Len(d) |-> <<d[i][1], PyStr(d[i][2])>>]>>]

\* open(path, 'a'): the new data goes after what the file held
WriteFile_append(old, data) == FileOf(old.data \o data)

\* open(path, 'w') and the writes that follow: the file holds exactly the new
\* data, whatever it held before
WriteFile(old, data) == FileOf(data)

\* ----------------------------------------------------------------- state
VARIABLES
    files,        \* the input files: label -> [status, content]
    dirWritable,  \* whether files can be created in results_dir
    out,          \* the output files: name -> [exists, data]
    metrics,      \* the dict metrics of the running process
    pc,           \* where the running process is: [at, i]
    err,          \* the exception that ended the process, or "none"
    run,          \* which run of the script this is
    out0,         \* the output files as they were when this run started
    io            \* the files this run has opened, in order

vars == <<files, dirWritable, out, metrics, pc, err, run, out0, io>>

At(a, i) == [at |-> a, i |-> i]

Statuses == {"absent", "ok", "unreadable", "undecodable"}

\* log lines the run specification builds its input files from
SampleLines ==
    { <<"ET", "1", "1">>,                          \* EXECUTION TIME : 11
      <<"a", "-", "1", "EC", "1", ".", "1">>,      \* a-1 : Energy Consumed = 1.1
      <<"NU", "1", ".", "1">>,                     \* Total network usage = 1.1
      <<"a", "EC", "1", ".", "1", ".">> }          \* a : Energy Consumed = 1.1.

LineSeqs(n) == UNION {[1..k -> SampleLines] : k \in 0..n}

RECURSIVE Join(_)
\* the text of the lines, each ended by a line break
Join(ls) == IF ls = <<>> THEN <<>> ELSE ls[1] \o <<"nl">> \o Join(Tail(ls))

Texts(alphabet, n) == UNION {[1..k -> alphabet] : k \in 0..n}

\* the state of a process that has just started
Fresh ==
    /\ metrics = EmptyMetrics
    /\ pc = At("process", 1)
    /\ err = "none"
    /\ io = <<>>

\* a first run in a results directory with no output yet; the input files hold
\* at most MaxLines lines together
Init ==
    /\ \E st \in [LabelSet -> Statuses] :
       \E a \in LineSeqs(MaxLines) :
       \E b \in LineSeqs(MaxLines - Len(a)) :
       \E c \in LineSeqs(MaxLines - Len(a) - Len(b)) :
         LET ls == [l \in LabelSet |->
                       CASE l = "Simple" -> a [] l = "Learnable" -> b [] l = "Full" -> c]
         IN  /\ \A l \in LabelSet : st[l] # "ok" => ls[l] = <<>>
             /\ files = [l \in LabelSet |->
                            [status |-> st[l], content |-> Join(ls[l])]]
    /\ dirWritable \in BOOLEAN
    /\ out = [n \in OutNames |-> NoFile]
    /\ out0 = out
    /\ run = 1
    /\ Fresh

\* the JSON file written right after the input files, the CSV loop left out
AfterProcess_jsonFirst(i) ==
    IF i < Len(Labels) THEN At("process", i + 1) ELSE At("json", 0)

\* what follows the i-th if-statement: the next one, then the loop of line 48
AfterProcess(i) ==
    IF i < Len(Labels) THEN At("process", i + 1) ELSE At("csv", 1)

\* lines 38-45, one of the three if-statements, with the call it makes
Process(i) ==
    LET l == Labels[i]
        f == files[l]
        next == AfterProcess(i)
    IN
    /\ pc = At("process", i)
    /\ IF f.status = "absent"
       THEN /\ pc' = next
            /\ UNCHANGED <<metrics, err, io>>
       ELSE /\ io' = Append(io, InputName(l))
            /\ IF f.status = "unreadable"
               THEN /\ err' = "OSError"
                    /\ pc' = At("failed", 0)
                    /\ UNCHANGED metrics
               ELSE IF f.status = "undecodable"
               THEN /\ err' = "UnicodeDecodeError"
                    /\ pc' = At("failed", 0)
                    /\ UNCHANGED metrics
               ELSE LET r == extract_metrics(metrics, f.content, l)
                    IN  /\ metrics' = r.metrics
                        /\ err' = r.err
                        /\ pc' = IF r.err = "none" THEN next ELSE At("failed", 0)
    /\ UNCHANGED <<files, dirWritable, out, run, out0>>

ProcessSimple == Process(1)
ProcessLearnable == Process(2)
ProcessFull == Process(3)

\* lines 48-53, one turn of the loop over metrics.items()
SaveCSV(k) ==
    LET metric_name == MetricNames[k]
        path == CsvName(metric_name)
    IN
    /\ pc = At("csv", k)
    /\ io' = Append(io, path)
    /\ IF dirWritable
       THEN /\ out' = [out EXCEPT ![path] =
                          WriteFile(@, CsvRows(metric_name, MetricData(metrics, metric_name)))]
            /\ pc' = IF k < Len(MetricNames) THEN At("csv", k + 1) ELSE At("json", 0)
            /\ UNCHANGED err
       ELSE /\ err' = "OSError"
            /\ pc' = At("failed", 0)
            /\ UNCHANGED out
    /\ UNCHANGED <<files, dirWritable, metrics, run, out0>>

SaveExecutionTime == SaveCSV(1)
SaveEnergyConsumption == SaveCSV(2)
SaveNetworkUsage == SaveCSV(3)

\* lines 56-57
SaveJSON ==
    /\ pc = At("json", 0)
    /\ io' = Append(io, JsonName)
    /\ IF dirWritable
       THEN /\ out' = [out EXCEPT ![JsonName] = WriteFile(@, JsonDoc(metrics))]
            /\ pc' = At("print", 0)
            /\ UNCHANGED err
       ELSE /\ err' = "OSError"
            /\ pc' = At("failed", 0)
            /\ UNCHANGED out
    /\ UNCHANGED <<files, dirWritable, metrics, run, out0>>

\* line 59
PrintDone ==
    /\ pc = At("print", 0)
    /\ pc' = At("done", 0)
    /\ UNCHANGED <<files, dirWritable, out, metrics, err, run, out0, io>>

\* the script is started again, on the same input files, once it has ended
Rerun ==
    /\ pc.at \in {"done", "failed"}
    /\ run < MaxRuns
    /\ run' = run + 1
    /\ out0' = out
    /\ metrics' = EmptyMetrics
    /\ pc' = At("process", 1)
    /\ err' = "none"
    /\ io' = <<>>
    /\ UNCHANGED <<files, dirWritable, out>>

Next ==
    \/ ProcessSimple
    \/ ProcessLearnable
    \/ ProcessFull
    \/ SaveExecutionTime
    \/ SaveEnergyConsumption
    \/ SaveNetworkUsage
    \/ SaveJSON
    \/ PrintDone
    \/ Rerun

Spec == Init /\ [][Next]_vars

\* The extraction specifications: simple_drl_results.txt is the one input
\* file, readable, and the three if-statements run.
InitText(texts) ==
    /\ \E content \in texts :
         files = [x \in LabelSet |->
                     IF x = "Simple" THEN [status |-> "ok", content |-> content]
                     ELSE [status |-> "absent", content |-> <<>>]]
    /\ dirWritable = TRUE
    /\ out = [n \in OutNames |-> NoFile]
    /\ out0 = out
    /\ run = 1
    /\ Fresh

NextExtract ==
    \/ ProcessSimple
    \/ ProcessLearnable
    \/ ProcessFull

\* any text of up to MaxLen symbols
InitExtract == InitText(Texts(Alphabet, MaxLen))
SpecExtract == InitExtract /\ [][NextExtract]_vars

\* any text of up to MaxEnergyLen symbols of the energy pattern
InitEnergy == InitText(Texts(EnergyAlphabet, MaxEnergyLen))
SpecEnergy == InitEnergy /\ [][NextExtract]_vars

\* ------------------------------------------------ what the claims speak of
Opened(path) == \E i \in 1..Len(io) : io[i] = path

\* extract_metrics has run on the file of label l in this run
Extracted(l) == files[l].status = "ok" /\ Opened(InputName(l))

Text(l) == files[l].content

Min(S) == CHOOSE x \in S : \A y \in S : x <= y

\* the places where the literal is followed by a character of the class
LitOccs(content, lit, class) ==
    {i \in 1..Len(content) - 1 : content[i] = lit /\ content[i + 1] \in class}

TimeOccs(content) == LitOccs(content, "ET", Digits)
NetOccs(content) == LitOccs(content, "NU", NumChars)

\* the last position of the longest run of characters of the class right
\* after position i
RunLast(content, i, class) ==
    CHOOSE j \in i..Len(content) :
        /\ \A k \in i + 1..j : content[k] \in class
        /\ j = Len(content) \/ content[j + 1] \notin class

RECURSIVE DigitsNumber(_, _, _)
\* the number the digits content[a..b] write
DigitsNumber(content, a, b) ==
    IF a > b THEN 0
    ELSE DigitVal(content[b]) + 10 * DigitsNumber(content, a, b - 1)

\* the integer written after the literal at position i
IntAfter(content, i) ==
    DigitsNumber(content, i + 1, RunLast(content, i, Digits))

\* the text of [\d\.] characters after position i
NumText(content, i) == SubSeq(content, i + 1, RunLast(content, i, NumChars))

\* a number text float() rejects follows an energy or a network literal
RejectedNumber(content) ==
    \E i \in LitOccs(content, "EC", NumChars) \cup NetOccs(content) :
        ~FloatOk(NumText(content, i))

\* C5: when a readable input file holds one or more 'EXECUTION TIME : <integer>',
\* execution_time holds, under the file's label, the integer of the first of
\* them in text order, as an int.
C5_FirstExecutionTime ==
    \A l \in LabelSet :
        (Extracted(l) /\ TimeOccs(Text(l)) # {}) =>
            /\ l \in KeySet(metrics.execution_time)
            /\ Get(metrics.execution_time, l) =
                   [t |-> "int", m |-> IntAfter(Text(l), Min(TimeOccs(Text(l)))), e |-> 0]

\* a file with two execution times of different value has been extracted
C5_Witness ==
    \E l \in LabelSet :
        /\ Extracted(l)
        /\ l \in KeySet(metrics.execution_time)
        /\ \E i, j \in TimeOccs(Text(l)) :
               i < j /\ IntAfter(Text(l), i) # IntAfter(Text(l), j)

\* C4: a readable input file with no 'EXECUTION TIME : <integer>' (no 'Total
\* network usage = <float>') leaves no entry under its label in execution_time
\* (network_usage), and the missing match does not end the run: a run ends
\* in extract_metrics only on a number text that float() rejects.
C4_NoMatchNoEntry ==
    \A l \in LabelSet :
        Extracted(l) =>
            /\ TimeOccs(Text(l)) = {} => l \notin KeySet(metrics.execution_time)
            /\ NetOccs(Text(l)) = {} => l \notin KeySet(metrics.network_usage)
            /\ ((TimeOccs(Text(l)) = {} \/ NetOccs(Text(l)) = {})
                  /\ ~RejectedNumber(Text(l))) => err = "none"

\* a file with text but neither match has been extracted and the run goes on
C4_Witness ==
    \E l \in LabelSet :
        /\ Extracted(l)
        /\ Text(l) # <<>>
        /\ TimeOccs(Text(l)) = {} /\ NetOccs(Text(l)) = {}
        /\ err = "none"
        /\ l \in KeySet(metrics.energy_consumption)

\* C3: a readable input file with no 'Energy Consumed' at all has an entry under
\* its label in energy_consumption, and the entry is the float 0.0, written
\* "0.0" in the CSV row and in the JSON entry.
C3_ZeroEnergyIsFloat ==
    \A l \in LabelSet :
        (Extracted(l) /\ \A i \in 1..Len(Text(l)) : Text(l)[i] # "EC") =>
            /\ l \in KeySet(metrics.energy_consumption)
            /\ Get(metrics.energy_consumption, l).t = "float"
            /\ PyStr(Get(metrics.energy_consumption, l)) = <<"0", ".", "0">>

\* Occurrences of '<name-token> : Energy Consumed = <float>', read left to
\* right without overlap: position i holds the literal, a float text follows
\* it, and a name-token ends right before it, in the text that no earlier
\* occurrence has taken.  A name-token is a run of word characters and hyphens
\* with a word character in it; asWritten says which names count: FALSE, any
\* such run; TRUE, only one where at most two hyphens follow some word
\* character, which is what \w+-?\w*-?\w* can match.
NameChars == WordChars \cup {"-"}

\* the first position of the run of name characters that ends before i and
\* starts at lo or later (i when there is none)
NameRunStart(content, i, lo) ==
    CHOOSE s \in lo..i :
        /\ \A k \in s..i - 1 : content[k] \in NameChars
        /\ s = lo \/ content[s - 1] \notin NameChars

NameOk(content, s, i, asWritten) ==
    \E w \in s..i - 1 :
        /\ content[w] \in WordChars
        /\ asWritten => Cardinality({k \in w + 1..i - 1 : content[k] = "-"}) <= 2

RECURSIVE IsOcc(_, _, _)
RECURSIVE TakenUpTo(_, _, _)

\* the last position an occurrence before position i has taken
TakenUpTo(content, i, asWritten) ==
    IF i <= 1 THEN 0
    ELSE IF IsOcc(content, i - 1, asWritten)
    THEN RunLast(content, i - 1, NumChars)
    ELSE TakenUpTo(content, i - 1, asWritten)

IsOcc(content, i, asWritten) ==
    /\ content[i] = "EC"
    /\ i < Len(content)
    /\ content[i + 1] \in NumChars
    /\ FloatOk(NumText(content, i))
    /\ LET lo == TakenUpTo(content, i, asWritten) + 1
       IN  lo <= i /\ NameOk(content, NameRunStart(content, i, lo), i, asWritten)

EnergyOccs(content, asWritten) ==
    {i \in 1..Len(content) : IsOcc(content, i, asWritten)}

\* digits after the dot of the float text at occurrence i
OccFrac(content, i) == FracLen(NumText(content, i))

RECURSIVE ScaledSum(_, _, _)
\* the sum of the float texts at the occurrences occs, in units of 10^-scale
ScaledSum(content, occs, scale) ==
    IF occs = {} THEN 0
    ELSE LET i == CHOOSE x \in occs : TRUE
         IN  DigitsValue(NumText(content, i), 1, 0) * Pow10(scale - OccFrac(content, i))
             + ScaledSum(content, occs \ {i}, scale)

RECURSIVE MaxOf(_)
MaxOf(S) == IF S = {} THEN 0
            ELSE LET x == CHOOSE y \in S : TRUE IN Max(x, MaxOf(S \ {x}))

\* the number v is the sum of the float texts at the occurrences
IsSumOf(v, content, asWritten) ==
    LET occs == EnergyOccs(content, asWritten)
        scale == Max(v.e, MaxOf({OccFrac(content, i) : i \in occs}))
    IN  v.m * Pow10(scale - v.e) = ScaledSum(content, occs, scale)

\* C2, as stated: the energy stored under the label of a readable input file is
\* the sum of the values of all occurrences of '<name-token> : Energy Consumed
\* = <float>', the name-token being any run of word characters and hyphens.
C2_SumOfAllNamedOccurrences ==
    \A l \in LabelSet :
        (Extracted(l) /\ l \in KeySet(metrics.energy_consumption)) =>
            IsSumOf(Get(metrics.energy_consumption, l), Text(l), FALSE)

\* C2, amended: the energy stored under the label of a readable input file is
\* the sum of the values of all occurrences, left to right without overlap, of
\* '<name-token> : Energy Consumed = <float>' whose name-token has a word
\* character followed by at most two hyphens; it is stored whenever
\* extract_metrics returns.
C2_SumOfAllMatches ==
    \A l \in LabelSet :
        Extracted(l) =>
            /\ err = "none" => l \in KeySet(metrics.energy_consumption)
            /\ l \in KeySet(metrics.energy_consumption) =>
                   IsSumOf(Get(metrics.energy_consumption, l), Text(l), TRUE)

\* a file with two occurrences has been extracted and its total stored
C2_Witness ==
    \E l \in LabelSet :
        /\ Extracted(l)
        /\ l \in KeySet(metrics.energy_consumption)
        /\ Cardinality(EnergyOccs(Text(l), TRUE)) >= 2

\* ------------------------------------------------- claims about whole runs
CsvNames == {CsvName(MetricNames[k]) : k \in 1..Len(MetricNames)}

\* the rows after the header row
DataRows(path) == Tail(out[path].data)
RowLabels(rows) == [i \in 1..Len(rows) |-> rows[i][1]]
CsvLabels(path) == RowLabels(DataRows(path))

\* the labels under the k-th category of all_metrics.json
JsonLabels(k) == RowLabels(out[JsonName].data[k][2])

OnlyLearnable ==
    /\ files["Simple"].status = "absent"
    /\ files["Full"].status = "absent"
    /\ files["Learnable"].status = "ok"

JsonHasOnlyLearnable ==
    \A k \in 1..Len(MetricNames) :
        \A i \in 1..Len(JsonLabels(k)) : JsonLabels(k)[i] = "Learnable"

\* C1, as stated: with the Learnable file the only input file, a complete run
\* leaves exactly one data row, labelled Learnable, in each of the three CSVs,
\* and no Simple or Full entry in all_metrics.json, whatever the file holds.
C1_OneRowInEveryCsv ==
    (OnlyLearnable /\ pc.at = "done") =>
        /\ \A path \in CsvNames : CsvLabels(path) = <<"Learnable">>
        /\ JsonHasOnlyLearnable

\* C1, amended: with the Learnable file the only input file, a complete run
\* leaves exactly one data row, labelled Learnable, in energy_consumption.csv;
\* in execution_time.csv and in network_usage.csv it leaves that one row when
\* the file has a match of the category's pattern and no data row when it has
\* none; all_metrics.json has no Simple or Full entry.
C1_OneRowWhereMatched ==
    (OnlyLearnable /\ pc.at = "done") =>
        /\ CsvLabels("energy_consumption.csv") = <<"Learnable">>
        /\ CsvLabels("execution_time.csv") =
               IF TimeOccs(Text("Learnable")) # {} THEN <<"Learnable">> ELSE <<>>
        /\ CsvLabels("network_usage.csv") =
               IF NetOccs(Text("Learnable")) # {} THEN <<"Learnable">> ELSE <<>>
        /\ JsonHasOnlyLearnable

\* a complete run on a Learnable file with an execution time and no network usage
C1_Witness ==
    /\ OnlyLearnable
    /\ pc.at = "done"
    /\ TimeOccs(Text("Learnable")) # {}
    /\ NetOccs(Text("Learnable")) = {}
    /\ Len(DataRows("execution_time.csv")) = 1

LabelIndex(l) == CHOOSE i \in 1..Len(Labels) : Labels[i] = l

\* C6: every CSV starts with its header row, and the labels of its data rows
\* come in the order Simple, Learnable, Full, none of them twice.
C6_RowsInProcessingOrder ==
    \A k \in 1..Len(MetricNames) :
        LET path == CsvName(MetricNames[k])
            ls == CsvLabels(path)
        IN  out[path].exists =>
                /\ out[path].data[1] = <<"Simulation Type", MetricNames[k]>>
                /\ \A i \in 1..Len(ls) : ls[i] \in LabelSet
                /\ \A i, j \in 1..Len(ls) :
                       i < j => LabelIndex(ls[i]) < LabelIndex(ls[j])

\* a CSV with two data rows or more has been written
C6_Witness ==
    \E path \in CsvNames : out[path].exists /\ Len(DataRows(path)) >= 2

\* C7: when a run that follows another run on the same input files ends, the
\* four output files hold what they held when it started.
C7_SecondRunSameOutputs ==
    (run >= 2 /\ pc.at \in {"done", "failed"}) => out = out0

\* a second run is complete and its CSVs have data rows
C7_Witness ==
    /\ run = 2
    /\ pc.at = "done"
    /\ Len(DataRows("execution_time.csv")) >= 1
    /\ Len(DataRows("energy_consumption.csv")) >= 1

IOErrors == {"OSError", "UnicodeDecodeError"}

\* C8: a run either completes all four writes or ends with an I/O failure
\* (a file that cannot be opened, read, decoded or created); it never ends
\* with another error.
C8_CompleteOrIOFailure ==
    /\ pc.at = "failed" => err \in IOErrors
    /\ pc.at = "done" => \A path \in OutNames : Opened(path) /\ out[path].exists

IsOut(path) == path \in OutNames

\* C9: no input file is opened after an output file; the output files are
\* opened in the order execution_time.csv, energy_consumption.csv,
\* network_usage.csv, all_metrics.json; an output file this run has not opened
\* is as it was when the run started, so a run that fails while reading or
\* extracting changes none; and once all_metrics.json is written, the three
\* CSVs hold the rows this run wrote.
C9_ReadAllThenWriteInOrder ==
    /\ \A i, j \in 1..Len(io) : (i < j /\ IsOut(io[i])) => IsOut(io[j])
    /\ LET w == SelectSeq(io, IsOut) IN w = SubSeq(OutOrder, 1, Len(w))
    /\ \A path \in OutNames : ~Opened(path) => out[path] = out0[path]
    /\ (pc.at = "failed" /\ SelectSeq(io, IsOut) = <<>>) => out = out0
    /\ pc.at \in {"print", "done"} =>
           /\ out[JsonName] = FileOf(JsonDoc(metrics))
           /\ \A k \in 1..Len(MetricNames) :
                  /\ Opened(CsvName(MetricNames[k]))
                  /\ out[CsvName(MetricNames[k])] =
                         FileOf(CsvRows(MetricNames[k], MetricData(metrics, MetricNames[k])))

\* a complete run that read an input file and wrote all_metrics.json
C9_Witness ==
    /\ pc.at = "done"
    /\ \E l \in LabelSet : Extracted(l)
    /\ Opened(JsonName)
    /\ out[JsonName].exists

\* C10: after a complete run, energy_consumption has exactly the labels of the
\* input files that exist, execution_time and network_usage have labels among
\* those, each CSV has the labels all_metrics.json has under its category, and
\* all_metrics.json has exactly the three categories.
C10_LabelSets ==
    pc.at = "done" =>
        /\ KeySet(metrics.energy_consumption) =
               {l \in LabelSet : files[l].status # "absent"}
        /\ KeySet(metrics.execution_time) \subseteq KeySet(metrics.energy_consumption)
        /\ KeySet(metrics.network_usage) \subseteq KeySet(metrics.energy_consumption)
        /\ [k \in 1..Len(out[JsonName].data) |-> out[JsonName].data[k][1]] = MetricNames
        /\ \A k \in 1..Len(MetricNames) :
               CsvLabels(CsvName(MetricNames[k])) = JsonLabels(k)

\* a complete run with an input file missing, one present, and an execution
\* time missing from a file that is there
C10_Witness ==
    /\ pc.at = "done"
    /\ \E l \in LabelSet : files[l].status = "absent"
    /\ KeySet(metrics.energy_consumption) # {}
    /\ KeySet(metrics.execution_time) # KeySet(metrics.energy_consumption)

====
